---- MODULE Spec2Model ----
(***************************************************************************)
(* Model of the BlueZ GAP profile plugin, profiles/gap/gas.c: the          *)
(* process-wide list of struct gas handlers, the three profile hooks       *)
(* (probe, remove, accept), the attribute database notifications           *)
(* (service_added, service_removed) and the two read completions.          *)
(*                                                                         *)
(* The attribute database, the GATT client and the device registry are     *)
(* collaborators outside gas.c; they are modelled by what gas.c asks of    *)
(* them: reference counts, the notification list of a database, the        *)
(* request queue of a client, and the registry calls made.                 *)
(***************************************************************************)
EXTENDS Integers, Sequences, FiniteSets, Bags, TLC

(***************************************************************************)
(* Bounds of the model.                                                    *)
(***************************************************************************)
\* read requests that may be outstanding, over all clients
MaxPending == 2
\* longest value a read completion carries when the decoding is explored
\* (besides the longer values listed one by one)
MaxValueLen == 2

(***************************************************************************)
(* Program constants.                                                      *)
(***************************************************************************)
GAP_UUID16 == 6144
GATT_CHARAC_DEVICE_NAME == 10752
GATT_CHARAC_APPEARANCE == 10753
HCI_MAX_NAME_LENGTH == 248

NULL == "NULL"

(***************************************************************************)
(* The world the plugin runs in.  Three topologies are explored, chosen    *)
(* once at start-up:                                                       *)
(*   "two-devices": d1 and d2, each with one database and one client; the  *)
(*                  database of d1 can hold a GAP service, that of d2      *)
(*                  holds none;                                            *)
(*   "services":    d1 alone, whose database can hold two GAP services and *)
(*                  one other service;                                     *)
(*   "reconnect":   d1 alone, which can come back with a second database   *)
(*                  and a second client.                                   *)
(* A fourth one, "decode", serves the exploration of the value decoding:   *)
(* d1 alone with its GAP service n1.                                       *)
(***************************************************************************)
VARIABLE topology

Topologies == {"two-devices", "services", "reconnect"}

AllDevices == {"d1", "d2"}
DBs == {"dbA", "dbB", "dbC"}
Clients == {"cA", "cB", "cC"}
\* heap cells a struct gas can be allocated in: one per device suffices
Addr == 1 .. Cardinality(AllDevices)

Devices == IF topology = "two-devices" THEN {"d1", "d2"} ELSE {"d1"}
DbsOf(d) ==
  IF d = "d2" THEN {"dbC"}
  ELSE IF topology = "reconnect" THEN {"dbA", "dbB"} ELSE {"dbA"}
ClientsOf(d) ==
  IF d = "d2" THEN {"cC"}
  ELSE IF topology = "reconnect" THEN {"cA", "cB"} ELSE {"cA"}

\* 16-bit UUIDs that are neither GAP nor one of its two characteristics
\* (Device Information; Peripheral Preferred Connection Parameters).
OtherServiceUuid == GAP_UUID16 + 10
OtherCharUuid == GATT_CHARAC_APPEARANCE + 3

\* Service nodes (struct gatt_db_attribute of a service declaration), in
\* handle order; each belongs to one database.  ok is whether
\* gatt_db_attribute_get_char_data succeeds on the characteristic.
NodeSeq ==
  << [id |-> "n1", db |-> "dbA", uuid |-> GAP_UUID16,
      chars |-> << [uuid |-> GATT_CHARAC_DEVICE_NAME, value_handle |-> 3, ok |-> TRUE],
                   [uuid |-> GATT_CHARAC_APPEARANCE, value_handle |-> 5, ok |-> TRUE],
                   [uuid |-> OtherCharUuid, value_handle |-> 7, ok |-> TRUE] >>],
     [id |-> "n2", db |-> "dbA", uuid |-> GAP_UUID16,
      chars |-> << [uuid |-> GATT_CHARAC_APPEARANCE, value_handle |-> 12, ok |-> TRUE],
                   [uuid |-> GATT_CHARAC_DEVICE_NAME, value_handle |-> 14, ok |-> FALSE],
                   [uuid |-> GATT_CHARAC_DEVICE_NAME, value_handle |-> 16, ok |-> TRUE] >>],
     [id |-> "n3", db |-> "dbA", uuid |-> OtherServiceUuid,
      chars |-> << [uuid |-> GATT_CHARAC_DEVICE_NAME, value_handle |-> 22, ok |-> TRUE] >>],
     [id |-> "n4", db |-> "dbB", uuid |-> GAP_UUID16,
      chars |-> << [uuid |-> GATT_CHARAC_DEVICE_NAME, value_handle |-> 3, ok |-> TRUE] >>] >>

AllNodes == {NodeSeq[i].id : i \in 1 .. Len(NodeSeq)}
Node(n) == CHOOSE r \in {NodeSeq[i] : i \in 1 .. Len(NodeSeq)} : r.id = n
DbOf(n) == Node(n).db
ServiceUuid(n) == Node(n).uuid
Chars(n) == Node(n).chars

\* the services that come and go in the topology
Nodes ==
  CASE topology = "two-devices" -> {"n1"}
    [] topology = "services" -> {"n1", "n2", "n3"}
    [] topology = "reconnect" -> {"n1", "n4"}
    [] topology = "decode" -> {"n1"}

\* Values a read completion may carry.
NameValues == { <<>>, <<80>>, <<255, 65>> }
AppearanceValues == { <<192, 0>>, <<64>> }
\* what a completion reporting failure may carry along
FailureValues == { <<>>, <<64>>, <<64, 3>> }

VARIABLES
  heap,        \* heap[a]: the struct gas at address a, or freed memory
  devices,     \* the GSList devices: addresses of the handlers, in order
  devRef,      \* reference count of each btd_device
  dbRef,       \* reference count of each gatt_db
  clientRef,   \* reference count of each bt_gatt_client
  dbNotify,    \* notification list of each gatt_db: <<[id, user_data]>>
  pending,     \* the read requests outstanding at the clients, a bag
  devDb,       \* btd_device_get_gatt_db(device)
  devClient,   \* btd_device_get_gatt_client(device)
  dbServices,  \* service nodes present in each database
  clientReady, \* bt_gatt_client_is_ready(client)
  crashed,     \* the process died on an invalid memory access
  out          \* what the last step did: hook, result, reads attempted, registry calls

vars == << topology, heap, devices, devRef, dbRef, clientRef, dbNotify,
           pending, devDb, devClient, dbServices, clientReady, crashed, out >>

(***************************************************************************)
(* Memory and small helpers.                                               *)
(***************************************************************************)
\* g_new0(struct gas, 1): every field zero.  Freed memory is modelled as a
\* cell that is not live; what a read of it yields is not defined.
ZeroGas == [live |-> TRUE, device |-> NULL, db |-> NULL, db_id |-> 0,
            client |-> NULL, attr |-> NULL]
FreeMem == [ZeroGas EXCEPT !.live = FALSE]

Min(a, b) == IF a < b THEN a ELSE b

\* number of outstanding read requests
TotalPending(q) == BagCardinality(q)

\* what the last step did, for a step of the environment alone
EnvOut == [op |-> "env", arg |-> NULL, ret |-> 0, reads |-> <<>>,
               calls |-> <<>>, errors |-> <<>>, uaf |-> FALSE]

(***************************************************************************)
(* cmp_device and g_slist_find_custom(devices, device, cmp_device): the    *)
(* first handler of the list whose device field is `device`, 0 if none.    *)
(***************************************************************************)
\* the comparison with its two results exchanged
cmp_device_inverted(gas, device) == IF gas.device = device THEN -1 ELSE 0

\* the comparison matching every handler
cmp_device_any(gas, device) == 0

cmp_device(gas, device) == IF gas.device = device THEN 0 ELSE -1

FindGas(w, device) ==
  LET hits == {i \in 1 .. Len(w.devices) :
                 cmp_device(w.heap[w.devices[i]], device) = 0}
  IN IF hits = {} THEN 0
     ELSE w.devices[CHOOSE i \in hits : \A j \in hits : i <= j]

\* g_slist_remove(devices, gas): removes the first element equal to gas
RECURSIVE SListRemove(_, _)
SListRemove(l, a) ==
  IF l = <<>> THEN <<>>
  ELSE IF Head(l) = a THEN Tail(l)
  ELSE <<Head(l)>> \o SListRemove(Tail(l), a)

(***************************************************************************)
(* The collaborators' calls gas.c makes.                                   *)
(***************************************************************************)
\* gatt_db_ref / gatt_db_unref, bt_gatt_client_ref / _unref, btd_device_ref /
\* _unref: a NULL argument is ignored.
gatt_db_ref(w, db) ==
  IF db = NULL THEN w ELSE [w EXCEPT !.dbRef[db] = @ + 1]
gatt_db_unref(w, db) ==
  IF db = NULL THEN w ELSE [w EXCEPT !.dbRef[db] = @ - 1]
bt_gatt_client_ref(w, c) ==
  IF c = NULL THEN w ELSE [w EXCEPT !.clientRef[c] = @ + 1]
bt_gatt_client_unref(w, c) ==
  IF c = NULL THEN w ELSE [w EXCEPT !.clientRef[c] = @ - 1]
btd_device_ref(w, d) ==
  IF d = NULL THEN w ELSE [w EXCEPT !.devRef[d] = @ + 1]
btd_device_unref(w, d) ==
  IF d = NULL THEN w ELSE [w EXCEPT !.devRef[d] = @ - 1]

\* gatt_db_register: appends a notification entry with a fresh nonzero id.
NextNotifyId(l) ==
  1 + (IF l = <<>> THEN 0
       ELSE LET ids == {l[i].id : i \in 1 .. Len(l)}
            IN CHOOSE m \in ids : \A k \in ids : k <= m)
gatt_db_register(w, db, a) ==
  IF db = NULL THEN w
  ELSE [w EXCEPT !.dbNotify[db] =
                   Append(@, [id |-> NextNotifyId(@), user_data |-> a])]

\* gatt_db_unregister: drops the entry with that id; nothing for NULL or 0.
gatt_db_unregister(w, db, id) ==
  IF db = NULL \/ id = 0 THEN w
  ELSE [w EXCEPT !.dbNotify[db] = SelectSeq(@, LAMBDA e : e.id # id)]

\* bt_gatt_client_read_value / bt_gatt_client_read_long_value: the request is
\* queued when the client can take it, and the call returns 0 otherwise.
ClientAccepts(c) == c # NULL /\ clientReady[c]

SubmitRead(w, c, req) ==
  LET ok == ClientAccepts(c)
      r == [req EXCEPT !.client = c]
  IN [w EXCEPT !.reads = Append(@, [req |-> r, ok |-> ok]),
               !.pending = IF ok THEN @ (+) SetToBag({r}) ELSE @]

(***************************************************************************)
(* name2utf8                                                               *)
(***************************************************************************)
IsCont(s, i) == i <= Len(s) /\ s[i] >= 128 /\ s[i] <= 191

\* g_utf8_validate(name, len, NULL) with len >= 0: well-formed UTF-8 and no
\* NUL byte among the len bytes.  Utf8SeqLen is the length of the character
\* a byte starts (0: no character starts with it); Utf8CharAt is whether
\* a well-formed character starts at i; every continuation byte must belong
\* to the character started by the nearest byte before it that is not one.
Utf8SeqLen(b) ==
  CASE b >= 1 /\ b <= 127 -> 1
    [] b >= 194 /\ b <= 223 -> 2
    [] b >= 224 /\ b <= 239 -> 3
    [] b >= 240 /\ b <= 244 -> 4
    [] OTHER -> 0
Utf8CharAt(s, i) ==
  LET b == s[i] IN
  /\ Utf8SeqLen(b) > 0
  /\ \A k \in 1 .. Utf8SeqLen(b) - 1 : IsCont(s, i + k)
  /\ b = 224 => s[i + 1] >= 160
  /\ b = 237 => s[i + 1] <= 159
  /\ b = 240 => s[i + 1] >= 144
  /\ b = 244 => s[i + 1] <= 143
g_utf8_validate(s) ==
  \A i \in 1 .. Len(s) :
    IF IsCont(s, i)
    THEN \E j \in 1 .. i - 1 :
           /\ ~IsCont(s, j)
           /\ \A k \in j + 1 .. i - 1 : IsCont(s, k)
           /\ Utf8SeqLen(s[j]) > i - j
    ELSE Utf8CharAt(s, i)

\* strncpy into the zeroed buffer, read back as a C string: the bytes from
\* position i up to the first NUL among the first len
CStr(s, i, len) ==
  LET nul == {k \in i .. len : s[k] = 0}
      end == IF nul = {} THEN len
             ELSE (CHOOSE k \in nul : \A m \in nul : k <= m) - 1
  IN SubSeq(s, i, end)

\* isascii
isascii(b) == b >= 0 /\ b <= 127

\* g_ascii_isspace: space, \t, \n, \v, \f, \r
g_ascii_isspace(b) == b = 32 \/ (b >= 9 /\ b <= 13)

\* g_strstrip: g_strchug (drop the leading white space) then g_strchomp
\* (drop the trailing white space)
g_strchug(s) ==
  LET keep == {k \in 1 .. Len(s) : ~g_ascii_isspace(s[k])}
  IN IF keep = {} THEN <<>>
     ELSE SubSeq(s, CHOOSE k \in keep : \A m \in keep : k <= m, Len(s))
g_strchomp(s) ==
  LET keep == {k \in 1 .. Len(s) : ~g_ascii_isspace(s[k])}
  IN IF keep = {} THEN <<>>
     ELSE SubSeq(s, 1, CHOOSE k \in keep : \A m \in keep : m <= k)
g_strstrip(s) == g_strchomp(g_strchug(s))

\* name2utf8 without the final g_strstrip
name2utf8_unstripped(name) ==
  IF g_utf8_validate(name) THEN name
  ELSE LET len == Min(Len(name), (HCI_MAX_NAME_LENGTH + 2) - 1)
           utf8_name == CStr(name, 1, len)
       IN [i \in 1 .. Len(utf8_name) |->
             IF ~isascii(utf8_name[i]) THEN 32 ELSE utf8_name[i]]

name2utf8(name) ==
  IF g_utf8_validate(name) THEN name
  ELSE LET len == Min(Len(name), (HCI_MAX_NAME_LENGTH + 2) - 1)
           utf8_name == CStr(name, 1, len)
           ascii == [i \in 1 .. Len(utf8_name) |->
                       IF ~isascii(utf8_name[i]) THEN 32 ELSE utf8_name[i]]
       IN g_strstrip(ascii)

\* get_le16
get_le16(value) == value[1] + 256 * value[2]

(***************************************************************************)
(* The state as one record, so that a handler is the composition of the    *)
(* statements of its C function.  reads, calls and errors collect what the *)
(* running step asked of the client, the registry and the error log.       *)
(***************************************************************************)
World ==
  [heap |-> heap, devices |-> devices, devRef |-> devRef, dbRef |-> dbRef,
   clientRef |-> clientRef, dbNotify |-> dbNotify, pending |-> pending,
   reads |-> <<>>, calls |-> <<>>, errors |-> <<>>]

error(w, msg) == [w EXCEPT !.errors = Append(@, msg)]

(***************************************************************************)
(* gas_free                                                                *)
(***************************************************************************)
\* gas_free forgetting to drop the device reference
gas_free_keeps_device_ref(w, a) ==
  LET gas == w.heap[a]
      w1 == gatt_db_unregister(w, gas.db, gas.db_id)
      w2 == gatt_db_unref(w1, gas.db)
      w3 == bt_gatt_client_unref(w2, gas.client)
  IN [w3 EXCEPT !.heap[a] = FreeMem]

gas_free(w, a) ==
  LET gas == w.heap[a]
      w1 == gatt_db_unregister(w, gas.db, gas.db_id)
      w2 == gatt_db_unref(w1, gas.db)
      w3 == bt_gatt_client_unref(w2, gas.client)
      w4 == btd_device_unref(w3, gas.device)
  IN [w4 EXCEPT !.heap[a] = FreeMem]

(***************************************************************************)
(* Read completions.  gasdev is what the read of gas->device yielded.      *)
(***************************************************************************)
\* the completion without its test of the length
read_device_name_cb_empty_ok(w, success, value, gasdev) ==
  IF ~success THEN w
  ELSE [w EXCEPT !.calls = Append(@, [fn |-> "btd_device_device_set_name",
                                      device |-> gasdev,
                                      value |-> name2utf8(value)])]

read_device_name_cb(w, success, value, gasdev) ==
  IF ~success THEN w
  ELSE IF Len(value) = 0 THEN w
  ELSE [w EXCEPT !.calls = Append(@, [fn |-> "btd_device_device_set_name",
                                      device |-> gasdev,
                                      value |-> name2utf8(value)])]

\* the appearance decoded with its two bytes exchanged
read_appearance_cb_big_endian(w, success, value, gasdev) ==
  IF ~success THEN w
  ELSE IF Len(value) # 2 THEN w
  ELSE [w EXCEPT !.calls = Append(@, [fn |-> "device_set_appearance",
                                      device |-> gasdev,
                                      value |-> value[2] + 256 * value[1]])]

read_appearance_cb(w, success, value, gasdev) ==
  IF ~success THEN w
  ELSE IF Len(value) # 2 THEN w
  ELSE [w EXCEPT !.calls = Append(@, [fn |-> "device_set_appearance",
                                      device |-> gasdev,
                                      value |-> get_le16(value)])]

\* whether the completion reaches the statement that reads gas->device
NameCbReadsGas(success, value) == success /\ Len(value) # 0
AppearanceCbReadsGas(success, value) == success /\ Len(value) = 2

(***************************************************************************)
(* Issuing the reads.                                                      *)
(***************************************************************************)
\* the name read issued as a single-value read
handle_device_name_short(w, a, value_handle) ==
  SubmitRead(w, w.heap[a].client,
             [client |-> NULL, fn |-> "bt_gatt_client_read_value",
              value_handle |-> value_handle, offset |-> 0,
              cb |-> "read_device_name_cb", user_data |-> a,
              orphan |-> FALSE])

handle_device_name(w, a, value_handle) ==
  SubmitRead(w, w.heap[a].client,
             [client |-> NULL, fn |-> "bt_gatt_client_read_long_value",
              value_handle |-> value_handle, offset |-> 0,
              cb |-> "read_device_name_cb", user_data |-> a,
              orphan |-> FALSE])

\* the appearance read submitted a second time when the client refuses it
handle_appearance_retries(w, a, value_handle) ==
  LET req == [client |-> NULL, fn |-> "bt_gatt_client_read_value",
              value_handle |-> value_handle, offset |-> 0,
              cb |-> "read_appearance_cb", user_data |-> a,
              orphan |-> FALSE]
      w1 == SubmitRead(w, w.heap[a].client, req)
  IN IF ClientAccepts(w.heap[a].client) THEN w1
     ELSE SubmitRead(w1, w.heap[a].client, req)

handle_appearance(w, a, value_handle) ==
  SubmitRead(w, w.heap[a].client,
             [client |-> NULL, fn |-> "bt_gatt_client_read_value",
              value_handle |-> value_handle, offset |-> 0,
              cb |-> "read_appearance_cb", user_data |-> a,
              orphan |-> FALSE])

uuid_cmp(u16, uuid) == u16 = uuid

\* the dispatch reading every characteristic it does not know as well
handle_characteristic_reads_all(w, a, ch) ==
  IF ~ch.ok THEN error(w, "Failed to obtain characteristic data")
  ELSE IF uuid_cmp(GATT_CHARAC_DEVICE_NAME, ch.uuid)
       THEN handle_device_name(w, a, ch.value_handle)
  ELSE handle_appearance(w, a, ch.value_handle)

\* ch: one characteristic declaration; ch.ok is whether
\* gatt_db_attribute_get_char_data succeeds on it.
handle_characteristic(w, a, ch) ==
  IF ~ch.ok THEN error(w, "Failed to obtain characteristic data")
  ELSE IF uuid_cmp(GATT_CHARAC_DEVICE_NAME, ch.uuid)
       THEN handle_device_name(w, a, ch.value_handle)
  ELSE IF uuid_cmp(GATT_CHARAC_APPEARANCE, ch.uuid)
       THEN handle_appearance(w, a, ch.value_handle)
  ELSE w

\* gatt_db_service_foreach_char(gas->attr, handle_characteristic, gas)
RECURSIVE ForeachChar(_, _, _)
ForeachChar(w, a, chs) ==
  IF chs = <<>> THEN w
  ELSE ForeachChar(handle_characteristic(w, a, Head(chs)), a, Tail(chs))

handle_gap_service(w, a) == ForeachChar(w, a, Chars(w.heap[a].attr))

(***************************************************************************)
(* Database callbacks.                                                     *)
(***************************************************************************)
\* the scan callback without its duplicate check
foreach_gap_service_rebinds(w, a, attr) ==
  handle_gap_service([w EXCEPT !.heap[a].attr = attr], a)

\* the scan callback consulting the client's readiness as service_added does
foreach_gap_service_checks_ready(w, a, attr) ==
  IF ~(w.heap[a].client # NULL /\ clientReady[w.heap[a].client]) THEN w
  ELSE IF w.heap[a].attr # NULL
  THEN error(w, "More than one GAP service exists for this device")
  ELSE handle_gap_service([w EXCEPT !.heap[a].attr = attr], a)

foreach_gap_service(w, a, attr) ==
  IF w.heap[a].attr # NULL
  THEN error(w, "More than one GAP service exists for this device")
  ELSE handle_gap_service([w EXCEPT !.heap[a].attr = attr], a)

\* service_added without its UUID check
service_added_any_uuid(w, a, attr) ==
  IF ~(w.heap[a].client # NULL /\ clientReady[w.heap[a].client]) THEN w
  ELSE IF w.heap[a].attr # NULL
       THEN error(w, "More than one GAP service added to device")
  ELSE handle_gap_service([w EXCEPT !.heap[a].attr = attr], a)

\* service_added without its test of the client's readiness
service_added_ignores_ready(w, a, attr) ==
  IF ServiceUuid(attr) # GAP_UUID16 THEN w
  ELSE IF w.heap[a].attr # NULL
       THEN error(w, "More than one GAP service added to device")
  ELSE handle_gap_service([w EXCEPT !.heap[a].attr = attr], a)

service_added(w, a, attr) ==
  IF ~(w.heap[a].client # NULL /\ clientReady[w.heap[a].client]) THEN w
  ELSE IF ServiceUuid(attr) # GAP_UUID16 THEN w
  ELSE IF w.heap[a].attr # NULL
       THEN error(w, "More than one GAP service added to device")
  ELSE handle_gap_service([w EXCEPT !.heap[a].attr = attr], a)

\* service_removed without its comparison
service_removed_any(w, a, attr) == [w EXCEPT !.heap[a].attr = NULL]

\* service_removed adopting another GAP service of the database, if any
service_removed_adopts(w, a, attr) ==
  IF w.heap[a].attr # attr THEN w
  ELSE LET others == {m \in dbServices[w.heap[a].db] :
                        ServiceUuid(m) = GAP_UUID16 /\ m # attr}
       IN [w EXCEPT !.heap[a].attr =
                      IF others = {} THEN NULL ELSE CHOOSE m \in others : TRUE]

service_removed(w, a, attr) ==
  IF w.heap[a].attr # attr THEN w
  ELSE [w EXCEPT !.heap[a].attr = NULL]

\* gatt_db_foreach_service(db, &gap_uuid, foreach_gap_service, gas): the
\* services of db with that UUID, in handle order.
RECURSIVE ForeachService(_, _, _, _, _)
ForeachService(w, a, db, uuid, i) ==
  IF i > Len(NodeSeq) THEN w
  ELSE LET n == NodeSeq[i] IN
       IF n.db = db /\ n.id \in dbServices[db] /\ n.uuid = uuid
       THEN ForeachService(foreach_gap_service(w, a, n.id), a, db, uuid, i + 1)
       ELSE ForeachService(w, a, db, uuid, i + 1)

\* the clean-up leaving gas->attr as it was
AcceptCleanup_keeps_attr(w, a) ==
  LET gas == w.heap[a]
      w2 == gatt_db_unregister(w, gas.db, gas.db_id)
      w3 == gatt_db_unref(w2, gas.db)
  IN bt_gatt_client_unref(w3, gas.client)

\* the clean-up leaving the old notification registration in place
AcceptCleanup_keeps_registration(w, a) ==
  LET gas == w.heap[a]
      w1 == [w EXCEPT !.heap[a].attr = NULL]
      w3 == gatt_db_unref(w1, gas.db)
  IN bt_gatt_client_unref(w3, gas.client)

\* the statements of gap_driver_accept that release the old references
AcceptCleanup(w, a) ==
  LET gas == w.heap[a]
      w1 == [w EXCEPT !.heap[a].attr = NULL]
      w2 == gatt_db_unregister(w1, gas.db, gas.db_id)
      w3 == gatt_db_unref(w2, gas.db)
  IN bt_gatt_client_unref(w3, gas.client)

\* the acquisition leaving out the client
AcceptAcquire_forgets_client(w, a, db, client) ==
  LET w1 == gatt_db_ref(w, db)
      w2 == [w1 EXCEPT !.heap[a].db = db]
      w5 == gatt_db_register(w2, db, a)
  IN [w5 EXCEPT !.heap[a].db_id = w5.dbNotify[db][Len(w5.dbNotify[db])].id]

\* the statements of gap_driver_accept that acquire the new ones
AcceptAcquire(w, a, db, client) ==
  LET w1 == gatt_db_ref(w, db)
      w2 == [w1 EXCEPT !.heap[a].db = db]
      w3 == bt_gatt_client_ref(w2, client)
      w4 == [w3 EXCEPT !.heap[a].client = client]
      w5 == gatt_db_register(w4, db, a)
  IN [w5 EXCEPT !.heap[a].db_id = w5.dbNotify[db][Len(w5.dbNotify[db])].id]

(***************************************************************************)
(* Steps.                                                                  *)
(***************************************************************************)
CommitU(w, op, arg, ret, uaf) ==
  /\ heap' = w.heap
  /\ devices' = w.devices
  /\ devRef' = w.devRef
  /\ dbRef' = w.dbRef
  /\ clientRef' = w.clientRef
  /\ dbNotify' = w.dbNotify
  /\ pending' = w.pending
  /\ out' = [op |-> op, arg |-> arg, ret |-> ret, reads |-> w.reads,
             calls |-> w.calls, errors |-> w.errors, uaf |-> uaf]

Commit(w, op, arg, ret) == CommitU(w, op, arg, ret, FALSE)

EnvUnchanged ==
  UNCHANGED << topology, devDb, devClient, dbServices, clientReady >>

\* a request whose handler has been freed is marked: bookkeeping of the
\* model, the program keeps no such mark
Orphaned(r, a) == IF r.user_data = a THEN [r EXCEPT !.orphan = TRUE] ELSE r
MarkOrphans(q, a) ==
  LET Copies(r) == IF r \in DOMAIN q THEN q[r] ELSE 0
      Plain(r) == [r EXCEPT !.orphan = FALSE]
  IN [r \in {Orphaned(e, a) : e \in DOMAIN q} |->
        IF r.user_data = a
        THEN Copies(r) + Copies(Plain(r))
        ELSE Copies(r)]

gap_driver_probe(device) ==
  /\ ~crashed
  /\ LET l == FindGas(World, device) IN
     IF l # 0
     THEN Commit(error(World, "Profile probed twice for the same device!"),
                 "gap_driver_probe", device, -1)
     ELSE IF \A x \in Addr : heap[x].live
     THEN Commit(World, "gap_driver_probe", device, -1)
     ELSE LET \* g_new0 hands out the lowest free cell
              a == CHOOSE x \in Addr :
                     ~heap[x].live /\ \A y \in Addr : ~heap[y].live => x <= y
              w1 == [World EXCEPT !.heap[a] = ZeroGas]
              w2 == btd_device_ref(w1, device)
              w3 == [w2 EXCEPT !.heap[a].device = device]
              w4 == [w3 EXCEPT !.devices = Append(@, a)]
          IN Commit(w4, "gap_driver_probe", device, 0)
  /\ EnvUnchanged
  /\ UNCHANGED crashed

gap_driver_remove(device) ==
  /\ ~crashed
  /\ LET l == FindGas(World, device) IN
     IF l = 0
     THEN Commit(error(World, "GAP service not handled by profile"),
                 "gap_driver_remove", device, 0)
     ELSE LET w1 == [World EXCEPT !.devices = SListRemove(@, l)]
              w2 == gas_free(w1, l)
              w3 == [w2 EXCEPT !.pending = MarkOrphans(@, l)]
          IN Commit(w3, "gap_driver_remove", device, 0)
  /\ EnvUnchanged
  /\ UNCHANGED crashed

gap_driver_accept(device) ==
  /\ ~crashed
  /\ LET db == devDb[device]
         client == devClient[device]
         l == FindGas(World, device) IN
     IF l = 0
     THEN Commit(error(World, "GAP service not handled by profile"),
                 "gap_driver_accept", device, -1)
     ELSE LET w1 == AcceptCleanup(World, l)
              w2 == AcceptAcquire(w1, l, db, client)
              w3 == ForeachService(w2, l, db, GAP_UUID16, 1)
          IN /\ TotalPending(w3.pending) <= MaxPending
             /\ Commit(w3, "gap_driver_accept", device, 0)
  /\ EnvUnchanged
  /\ UNCHANGED crashed

\* the database calls the service_added callback of every entry of its
\* notification list, in order
RECURSIVE NotifyAdded(_, _, _)
NotifyAdded(w, l, attr) ==
  IF l = <<>> THEN w
  ELSE NotifyAdded(service_added(w, Head(l).user_data, attr), Tail(l), attr)

RECURSIVE NotifyRemoved(_, _, _)
NotifyRemoved(w, l, attr) ==
  IF l = <<>> THEN w
  ELSE NotifyRemoved(service_removed(w, Head(l).user_data, attr), Tail(l), attr)

\* a callback registered with a freed handler as user_data
StaleEntry(l) == \E i \in 1 .. Len(l) : ~heap[l[i].user_data].live

\* A service appears in its database; the database notifies.
DbServiceAdded(n) ==
  /\ ~crashed
  /\ n \notin dbServices[DbOf(n)]
  /\ dbServices' = [dbServices EXCEPT ![DbOf(n)] = @ \cup {n}]
  /\ LET l == dbNotify[DbOf(n)] IN
     IF StaleEntry(l)
     THEN /\ crashed' = TRUE
          /\ CommitU(World, "service_added", n, 0, TRUE)
     ELSE LET w == NotifyAdded(World, l, n) IN
          /\ TotalPending(w.pending) <= MaxPending
          /\ Commit(w, "service_added", n, 0)
          /\ UNCHANGED crashed
  /\ UNCHANGED << topology, devDb, devClient, clientReady >>

\* A service disappears from its database; the database notifies.
DbServiceRemoved(n) ==
  /\ ~crashed
  /\ n \in dbServices[DbOf(n)]
  /\ dbServices' = [dbServices EXCEPT ![DbOf(n)] = @ \ {n}]
  /\ LET l == dbNotify[DbOf(n)] IN
     IF StaleEntry(l)
     THEN /\ crashed' = TRUE
          /\ CommitU(World, "service_removed", n, 0, TRUE)
     ELSE /\ Commit(NotifyRemoved(World, l, n), "service_removed", n, 0)
          /\ UNCHANGED crashed
  /\ UNCHANGED << topology, devDb, devClient, clientReady >>

\* what a read of gas->device can yield: the field of a live handler; for
\* freed memory any device pointer, or an invalid access
DerefDevice(a) ==
  IF heap[a].live THEN {heap[a].device} ELSE Devices \cup {"crash"}

\* The client completes the outstanding request r and calls back; the step
\* is recorded with what the completion reported.
ReadDeviceNameComplete(r, success, value) ==
  /\ ~crashed
  /\ BagIn(r, pending)
  /\ r.cb = "read_device_name_cb"
  /\ success \/ value \in FailureValues
  /\ LET a == r.user_data
         w0 == [World EXCEPT !.pending = @ (-) SetToBag({r})]
     IN IF ~NameCbReadsGas(success, value)
        THEN /\ Commit(read_device_name_cb(w0, success, value, NULL),
                       "read_device_name_cb", << success, value >>, 0)
             /\ UNCHANGED crashed
        ELSE \E g \in DerefDevice(a) :
               IF g = "crash"
               THEN /\ crashed' = TRUE
                    /\ CommitU(w0, "read_device_name_cb", << success, value >>, 0, TRUE)
               ELSE /\ CommitU(read_device_name_cb(w0, success, value, g),
                               "read_device_name_cb", << success, value >>, 0, ~heap[a].live)
                    /\ UNCHANGED crashed
  /\ EnvUnchanged

\* the appearance completion dropping the value once gas->attr is cleared
ReadAppearanceComplete_checks_attr(r, success, value) ==
  /\ ~crashed
  /\ BagIn(r, pending)
  /\ r.cb = "read_appearance_cb"
  /\ success \/ value \in FailureValues
  /\ LET a == r.user_data
         w0 == [World EXCEPT !.pending = @ (-) SetToBag({r})]
     IN IF ~AppearanceCbReadsGas(success, value)
        THEN /\ Commit(read_appearance_cb(w0, success, value, NULL),
                       "read_appearance_cb", << success, value >>, 0)
             /\ UNCHANGED crashed
        ELSE \E g \in DerefDevice(a) :
               IF g = "crash"
               THEN /\ crashed' = TRUE
                    /\ CommitU(w0, "read_appearance_cb", << success, value >>,
                               0, TRUE)
               ELSE /\ CommitU(IF heap[a].attr = NULL THEN w0
                               ELSE read_appearance_cb(w0, success, value, g),
                               "read_appearance_cb", << success, value >>, 0,
                               ~heap[a].live)
                    /\ UNCHANGED crashed
  /\ EnvUnchanged

ReadAppearanceComplete(r, success, value) ==
  /\ ~crashed
  /\ BagIn(r, pending)
  /\ r.cb = "read_appearance_cb"
  /\ success \/ value \in FailureValues
  /\ LET a == r.user_data
         w0 == [World EXCEPT !.pending = @ (-) SetToBag({r})]
     IN IF ~AppearanceCbReadsGas(success, value)
        THEN /\ Commit(read_appearance_cb(w0, success, value, NULL),
                       "read_appearance_cb", << success, value >>, 0)
             /\ UNCHANGED crashed
        ELSE \E g \in DerefDevice(a) :
               IF g = "crash"
               THEN /\ crashed' = TRUE
                    /\ CommitU(w0, "read_appearance_cb", << success, value >>, 0, TRUE)
               ELSE /\ CommitU(read_appearance_cb(w0, success, value, g),
                               "read_appearance_cb", << success, value >>, 0, ~heap[a].live)
                    /\ UNCHANGED crashed
  /\ EnvUnchanged

PluginUnchanged ==
  UNCHANGED << heap, devices, devRef, dbRef, clientRef, dbNotify, pending,
               crashed >>

\* The client finishes, or loses, its transport-level negotiation.
ClientReadyChange(c) ==
  /\ ~crashed
  /\ clientReady' = [clientReady EXCEPT ![c] = ~@]
  /\ out' = EnvOut
  /\ PluginUnchanged
  /\ UNCHANGED << topology, devDb, devClient, dbServices >>

\* The device reconnects: it now answers with another database or client.
Reconnect(d, db, c) ==
  /\ ~crashed
  /\ << db, c >> # << devDb[d], devClient[d] >>
  /\ devDb' = [devDb EXCEPT ![d] = db]
  /\ devClient' = [devClient EXCEPT ![d] = c]
  /\ out' = EnvOut
  /\ PluginUnchanged
  /\ UNCHANGED << topology, dbServices, clientReady >>

\* gap_init: devices = NULL; nothing is probed, every object is held once by
\* its owner outside the plugin.
Init ==
  /\ topology \in Topologies
  /\ heap = [a \in Addr |-> FreeMem]
  /\ devices = <<>>
  /\ devRef = [d \in AllDevices |-> 1]
  /\ dbRef = [db \in DBs |-> 1]
  /\ clientRef = [c \in Clients |-> 1]
  /\ dbNotify = [db \in DBs |-> <<>>]
  /\ pending = EmptyBag
  /\ devDb = [d \in AllDevices |-> IF d = "d1" THEN "dbA" ELSE "dbC"]
  /\ devClient = [d \in AllDevices |-> IF d = "d1" THEN "cA" ELSE "cC"]
  /\ dbServices = [db \in DBs |-> {}]
  /\ clientReady = [c \in Clients |-> FALSE]
  /\ crashed = FALSE
  /\ out = EnvOut

Next ==
  \/ \E d \in Devices : gap_driver_probe(d)
  \/ \E d \in Devices : gap_driver_remove(d)
  \/ \E d \in Devices : gap_driver_accept(d)
  \/ \E n \in Nodes : DbServiceAdded(n)
  \/ \E n \in Nodes : DbServiceRemoved(n)
  \/ \E r \in BagToSet(pending), v \in NameValues :
       \E success \in BOOLEAN : ReadDeviceNameComplete(r, success, v)
  \/ \E r \in BagToSet(pending), v \in AppearanceValues :
       \E success \in BOOLEAN : ReadAppearanceComplete(r, success, v)
  \/ \E d \in Devices : \E c \in ClientsOf(d) : ClientReadyChange(c)
  \/ \E d \in Devices : \E db \in DbsOf(d), c \in ClientsOf(d) : Reconnect(d, db, c)

Spec == Init /\ [][Next]_vars

(***************************************************************************)
(* The decoding of the values, explored on many values: d1 with its GAP    *)
(* service is probed and accepted, and the completions of its two reads    *)
(* carry every short byte string over a few telling bytes, and three long  *)
(* or special names.                                                       *)
(***************************************************************************)
SeqsUpTo(S, n) == UNION { [1 .. k -> S] : k \in 0 .. n }

\* NUL, space, 'A', DEL, a UTF-8 continuation byte and a two-byte lead
NameBytes == {0, 32, 65, 127, 169, 195}
\* 0xFF 'A' 'B' 0xFF
NameFFABFF == << 255, 65, 66, 255 >>
\* longer than the buffer of name2utf8: 0xFF and 250 times 'A'; 251 times 'A'
LongInvalidName == << 255 >> \o [i \in 1 .. HCI_MAX_NAME_LENGTH + 2 |-> 65]
LongValidName == [i \in 1 .. HCI_MAX_NAME_LENGTH + 3 |-> 65]
\* a NUL byte inside a name that is not UTF-8; 'A' and a two-byte character
NameNulInside == << 169, 0, 65 >>
NameAccented == << 65, 195, 169 >>
NameInputs ==
  SeqsUpTo(NameBytes, MaxValueLen)
    \cup {NameFFABFF, LongInvalidName, LongValidName, NameNulInside,
          NameAccented}

AppearanceBytes == {0, 3, 64, 255}
\* one byte more than an appearance has
AppearanceTooLong == << 64, 3, 0 >>
AppearanceInputs ==
  SeqsUpTo(AppearanceBytes, MaxValueLen) \cup {AppearanceTooLong}

DecodeInit ==
  /\ topology = "decode"
  /\ heap = [a \in Addr |-> FreeMem]
  /\ devices = <<>>
  /\ devRef = [d \in AllDevices |-> 1]
  /\ dbRef = [db \in DBs |-> 1]
  /\ clientRef = [c \in Clients |-> 1]
  /\ dbNotify = [db \in DBs |-> <<>>]
  /\ pending = EmptyBag
  /\ devDb = [d \in AllDevices |-> IF d = "d1" THEN "dbA" ELSE "dbC"]
  /\ devClient = [d \in AllDevices |-> IF d = "d1" THEN "cA" ELSE "cC"]
  /\ dbServices = [db \in DBs |-> {}]
  /\ clientReady = [c \in Clients |-> FALSE]
  /\ crashed = FALSE
  /\ out = EnvOut

DecodeNext ==
  \/ \E d \in Devices : gap_driver_probe(d)
  \/ \E d \in Devices : gap_driver_accept(d)
  \/ \E n \in Nodes : DbServiceAdded(n)
  \/ \E r \in BagToSet(pending), v \in NameInputs :
       \E success \in BOOLEAN : ReadDeviceNameComplete(r, success, v)
  \/ \E r \in BagToSet(pending), v \in AppearanceInputs :
       \E success \in BOOLEAN : ReadAppearanceComplete(r, success, v)
  \/ \E d \in Devices : \E c \in ClientsOf(d) : ClientReadyChange(c)

DecodeSpec == DecodeInit /\ [][DecodeNext]_vars

(***************************************************************************)
(* Vocabulary of the properties.                                           *)
(***************************************************************************)
\* the addresses of the handlers in the list whose device is d
HandlersOf(d) ==
  {i \in 1 .. Len(devices) : heap[devices[i]].device = d}
HasHandler(d) == HandlersOf(d) # {}
\* the handler of d (its address), when it has one
GasOf(d) == devices[CHOOSE i \in HandlersOf(d) : TRUE]

\* the step just taken was the hook op called for arg
Did(op, arg) == out'.op = op /\ out'.arg = arg

\* nothing the plugin owns or holds changes
PluginStateUnchanged ==
  UNCHANGED << heap, devices, devRef, dbRef, clientRef, dbNotify, pending >>

\* the step just taken was the completion of the outstanding request r
Completes(r) ==
  /\ BagIn(r, pending)
  /\ pending' = pending (-) SetToBag({r})
  /\ out'.op = r.cb

\* the GAP services present in database db, and the first of them in
\* handle order
GapPresent(db) == {n \in dbServices[db] : ServiceUuid(n) = GAP_UUID16}
NodeIndex(n) == CHOOSE i \in 1 .. Len(NodeSeq) : NodeSeq[i].id = n
FirstGap(db) ==
  CHOOSE n \in GapPresent(db) :
    \A m \in GapPresent(db) : NodeIndex(n) <= NodeIndex(m)

\* the read attempts expected of one run of the service-handling routine
\* for handler a on node n: one per readable Device Name or Appearance
\* characteristic, in the order of the characteristics
ExpectedAttempt(ch, a) ==
  [ok |-> clientReady'[heap'[a].client],
   req |-> [client |-> heap'[a].client,
            fn |-> IF ch.uuid = GATT_CHARAC_DEVICE_NAME
                   THEN "bt_gatt_client_read_long_value"
                   ELSE "bt_gatt_client_read_value",
            value_handle |-> ch.value_handle, offset |-> 0,
            cb |-> IF ch.uuid = GATT_CHARAC_DEVICE_NAME
                   THEN "read_device_name_cb" ELSE "read_appearance_cb",
            user_data |-> a, orphan |-> FALSE]]
RECURSIVE ExpectedReads(_, _)
ExpectedReads(chs, a) ==
  IF chs = <<>> THEN <<>>
  ELSE IF Head(chs).ok /\ Head(chs).uuid \in
            {GATT_CHARAC_DEVICE_NAME, GATT_CHARAC_APPEARANCE}
       THEN <<ExpectedAttempt(Head(chs), a)>> \o ExpectedReads(Tail(chs), a)
       ELSE ExpectedReads(Tail(chs), a)

\* how many characteristics of node n carry the UUID
CharCount(n, uuid) ==
  Cardinality({i \in 1 .. Len(Chars(n)) : Chars(n)[i].uuid = uuid})

(***************************************************************************)
(* C1: the handler list holds at most one handler per device, and a probe  *)
(* for a device that already has a handler returns an error and changes    *)
(* neither that handler nor the list.                                      *)
(***************************************************************************)
C1_AtMostOne == \A d \in AllDevices : Cardinality(HandlersOf(d)) <= 1

C1_SecondProbeFails ==
  \A d \in AllDevices :
    (Did("gap_driver_probe", d) /\ HasHandler(d)) =>
      /\ out'.ret = -1
      /\ heap'[GasOf(d)] = heap[GasOf(d)]
      /\ devices' = devices
      /\ PluginStateUnchanged

\* C1: at most one handler per device in every state, and a second probe
\* fails without changing anything
C1_OneHandlerPerDevice == []C1_AtMostOne /\ [][C1_SecondProbeFails]_vars

C1_Witness ==
  /\ out.op = "gap_driver_probe"
  /\ out.ret = -1
  /\ out.errors = << "Profile probed twice for the same device!" >>
  /\ HasHandler(out.arg)
  /\ heap[GasOf(out.arg)].db # NULL

(***************************************************************************)
(* C2: a read completion delivered after the handler that issued the read  *)
(* was removed is discarded: it does not touch the freed handler and makes *)
(* no registry call.  (The code keeps the freed handler as the callback's  *)
(* user_data and cancels nothing, so this is violated.)                    *)
(***************************************************************************)
\* C2: the completion of a request whose handler was removed touches no
\* freed memory and makes no registry call
C2_LateCompletionDiscarded ==
  [][\A r \in BagToSet(pending) :
       (r.orphan /\ Completes(r)) =>
         (~out'.uaf /\ out'.calls = <<>> /\ ~crashed')]_vars

(***************************************************************************)
(* C3: Accept on a probed device whose database holds one GAP service      *)
(* with one Device Name and one Appearance characteristic attempts exactly *)
(* two reads, a long read of the name and a single read of the appearance; *)
(* the successful completion of the name read with a non-empty value makes *)
(* exactly one btd_device_device_set_name call for the device, passing the *)
(* decoded name (the value itself when it is valid UTF-8), and the         *)
(* successful completion of the appearance read with two bytes makes       *)
(* exactly one device_set_appearance call with the little-endian value.    *)
(***************************************************************************)
C3_Tree(db) ==
  /\ Cardinality(GapPresent(db)) = 1
  /\ CharCount(FirstGap(db), GATT_CHARAC_DEVICE_NAME) = 1
  /\ CharCount(FirstGap(db), GATT_CHARAC_APPEARANCE) = 1

C3_AcceptStep ==
  \A d \in AllDevices :
    (Did("gap_driver_accept", d) /\ HasHandler(d) /\ C3_Tree(devDb[d])) =>
      LET a == GasOf(d)
          n == FirstGap(devDb[d])
          reqs == [i \in 1 .. Len(out'.reads) |-> out'.reads[i].req]
      IN /\ Len(reqs) = 2
         /\ \E i, j \in 1 .. 2 :
              /\ reqs[i].fn = "bt_gatt_client_read_long_value"
              /\ reqs[i].cb = "read_device_name_cb"
              /\ reqs[i].offset = 0
              /\ \E k \in 1 .. Len(Chars(n)) :
                   /\ Chars(n)[k].uuid = GATT_CHARAC_DEVICE_NAME
                   /\ Chars(n)[k].value_handle = reqs[i].value_handle
              /\ reqs[j].fn = "bt_gatt_client_read_value"
              /\ reqs[j].cb = "read_appearance_cb"
              /\ \E k \in 1 .. Len(Chars(n)) :
                   /\ Chars(n)[k].uuid = GATT_CHARAC_APPEARANCE
                   /\ Chars(n)[k].value_handle = reqs[j].value_handle
         /\ \A i \in 1 .. 2 :
              /\ reqs[i].user_data = a
              /\ reqs[i].client = devClient[d]
         /\ heap'[a].attr = n

C3_NameStep ==
  \A r \in BagToSet(pending), v \in NameValues :
    (ReadDeviceNameComplete(r, TRUE, v) /\ v # <<>> /\ ~r.orphan) =>
      /\ Len(out'.calls) = 1
      /\ out'.calls[1].fn = "btd_device_device_set_name"
      /\ out'.calls[1].device = heap[r.user_data].device
      /\ out'.calls[1].value = name2utf8(v)
      /\ g_utf8_validate(v) => out'.calls[1].value = v
      /\ ~BagIn(r, pending') \/ CopiesIn(r, pending') < CopiesIn(r, pending)

C3_AppearanceStep ==
  \A r \in BagToSet(pending), v \in AppearanceValues :
    (ReadAppearanceComplete(r, TRUE, v) /\ Len(v) = 2 /\ ~r.orphan) =>
      /\ Len(out'.calls) = 1
      /\ out'.calls[1].fn = "device_set_appearance"
      /\ out'.calls[1].device = heap[r.user_data].device
      /\ out'.calls[1].value = v[1] + 256 * v[2]
      /\ ~BagIn(r, pending') \/ CopiesIn(r, pending') < CopiesIn(r, pending)

\* C3: two reads attempted by Accept, one registry call per successful
\* completion
C3_AcceptReadsAndReports ==
  [][C3_AcceptStep /\ C3_NameStep /\ C3_AppearanceStep]_vars

\* both reads of an Accept on such a tree have completed, the second one
\* reporting the appearance 0x00C0 to the registry
C3_Witness ==
  /\ HasHandler("d1")
  /\ heap[GasOf("d1")].attr = "n1"
  /\ pending = EmptyBag
  /\ out.op = "read_appearance_cb"
  /\ out.calls = << [fn |-> "device_set_appearance", device |-> "d1",
                     value |-> 192] >>
  /\ ~out.uaf

(***************************************************************************)
(* C4: a handler's serviceHandle (attr) is non-null only if the node is    *)
(* present in the handler's current database.                              *)
(***************************************************************************)
\* C4: attr non-null only while its node is present in the handler's database
C4_ServiceHandlePresent ==
  \A a \in Addr :
    (heap[a].live /\ heap[a].attr # NULL) =>
      /\ heap[a].db # NULL
      /\ DbOf(heap[a].attr) = heap[a].db
      /\ heap[a].attr \in dbServices[heap[a].db]

\* bound on the second database while the first still holds its GAP service
C4_Witness ==
  /\ HasHandler("d1")
  /\ heap[GasOf("d1")].attr = "n4"
  /\ heap[GasOf("d1")].db = "dbB"
  /\ "n1" \in dbServices["dbA"]

(***************************************************************************)
(* C5 as stated: a service-added notification for a non-GAP node changes   *)
(* nothing and issues no read; for a GAP node while attr is null it sets   *)
(* attr to the node and runs the characteristic handling; for a GAP node   *)
(* while attr is set it changes nothing and issues no read.                *)
(* (Violated: with the client not ready the second case does nothing.)     *)
(***************************************************************************)
Registered(a, db) ==
  \E i \in 1 .. Len(dbNotify[db]) : dbNotify[db][i].user_data = a

\* the three cases; assumeReady leaves the client's readiness out of them
C5_Cases(assumeReady) ==
  \A n \in AllNodes :
    Did("service_added", n) =>
      \A a \in Addr :
        (heap[a].live /\ Registered(a, DbOf(n))) =>
          IF \/ ServiceUuid(n) # GAP_UUID16
             \/ heap[a].attr # NULL
             \/ ~(assumeReady \/ clientReady[heap[a].client])
          THEN /\ heap'[a] = heap[a]
               /\ \A i \in 1 .. Len(out'.reads) : out'.reads[i].req.user_data # a
               /\ pending' = pending
          ELSE /\ heap'[a] = [heap[a] EXCEPT !.attr = n]
               /\ out'.reads = ExpectedReads(Chars(n), a)

\* C5 as stated, the client's readiness left out
C5_Original == [][C5_Cases(TRUE)]_vars

(***************************************************************************)
(* C5 as amended: the second case needs the GATT client to report ready;   *)
(* while it does not, the notification changes nothing and issues no read, *)
(* whatever the node.                                                      *)
(***************************************************************************)
\* C5 as amended: the three cases of service_added, under a ready client
C5_ServiceAdded == [][C5_Cases(FALSE)]_vars

\* the notification has bound the handler and queued the two reads of n1
C5_Witness ==
  /\ out.op = "service_added"
  /\ out.arg = "n1"
  /\ Len(out.reads) = 2
  /\ HasHandler("d1")
  /\ heap[GasOf("d1")].attr = "n1"
  /\ BagCardinality(pending) = 2

(***************************************************************************)
(* C6: a service-removed notification sets attr to null exactly when the   *)
(* removed node is the one stored in attr, and leaves every other field    *)
(* and every other handler as they were; it issues no read and makes no    *)
(* registry call.                                                          *)
(***************************************************************************)
C6_RemovedStep ==
  \A n \in AllNodes :
    Did("service_removed", n) =>
      /\ \A a \in Addr :
           heap'[a] = IF heap[a].live /\ heap[a].attr = n
                      THEN [heap[a] EXCEPT !.attr = NULL]
                      ELSE heap[a]
      /\ out'.reads = <<>>
      /\ out'.calls = <<>>
      /\ UNCHANGED << devices, devRef, dbRef, clientRef, dbNotify, pending >>

\* C6: service_removed clears attr exactly for the node stored in it
C6_ServiceRemoved == [][C6_RemovedStep]_vars

\* n1 was removed and the handler, registered on its database, is unbound
\* while the reads issued for n1 are still outstanding
C6_Witness ==
  /\ out.op = "service_removed"
  /\ out.arg = "n1"
  /\ HasHandler("d1")
  /\ heap[GasOf("d1")].db = "dbA"
  /\ heap[GasOf("d1")].attr = NULL
  /\ BagCardinality(pending) = 2

(***************************************************************************)
(* C7: when the scan of Accept visits more than one GAP service, attr is   *)
(* bound to the first one visited, the reads attempted are those of that   *)
(* node alone, and every later node is reported as an error.               *)
(***************************************************************************)
C7_ScanStep ==
  \A d \in AllDevices :
    (Did("gap_driver_accept", d) /\ HasHandler(d)
       /\ Cardinality(GapPresent(devDb[d])) > 1) =>
      LET a == GasOf(d)
          first == FirstGap(devDb[d])
      IN /\ heap'[a].attr = first
         /\ out'.reads = ExpectedReads(Chars(first), a)
         /\ out'.errors =
              [i \in 1 .. Cardinality(GapPresent(devDb[d])) - 1 |->
                 "More than one GAP service exists for this device"]

\* C7: the scan keeps the first GAP service and reports the others
C7_FirstGapServiceKept == [][C7_ScanStep]_vars

C7_Witness ==
  /\ out.op = "gap_driver_accept"
  /\ out.errors = << "More than one GAP service exists for this device" >>
  /\ GapPresent("dbA") = {"n1", "n2"}
  /\ heap[GasOf("d1")].attr = "n1"
  /\ Len(out.reads) = 2

(***************************************************************************)
(* C8: Accept on an existing handler releases the database reference, the  *)
(* client reference and the registration it held and takes those of the    *)
(* device's current database and client; so a handler that has been        *)
(* accepted holds exactly one reference on its database, one on its        *)
(* client, and exactly one registration, which is on its database: no      *)
(* other database notifies it.                                             *)
(***************************************************************************)
\* the entries of the notification lists naming handler a, as
\* <<database, position>> pairs
RegistrationSlots(a) ==
  UNION { { << db, i >> : i \in {j \in 1 .. Len(dbNotify[db]) :
                                   dbNotify[db][j].user_data = a} } :
          db \in DBs }

C8_HoldsOneOfEach ==
  \A a \in Addr :
    (heap[a].live /\ heap[a].db # NULL) =>
      /\ heap[a].client # NULL
      /\ dbRef[heap[a].db] = 2
      /\ clientRef[heap[a].client] = 2
      /\ Cardinality(RegistrationSlots(a)) = 1
      /\ \A sl \in RegistrationSlots(a) :
           /\ sl[1] = heap[a].db
           /\ dbNotify[sl[1]][sl[2]].id = heap[a].db_id

C8_AcceptStep ==
  \A d \in AllDevices :
    (Did("gap_driver_accept", d) /\ HasHandler(d)) =>
      /\ out'.ret = 0
      /\ heap'[GasOf(d)].db = devDb[d]
      /\ heap'[GasOf(d)].client = devClient[d]
      /\ heap'[GasOf(d)].device = d

\* C8: one database reference, one client reference and one registration
\* per accepted handler, all on what the last Accept was given
C8_AcceptReplacesReferences == []C8_HoldsOneOfEach /\ [][C8_AcceptStep]_vars

\* accepted again on the second database and client while a read issued on
\* the first client is still outstanding
C8_Witness ==
  /\ HasHandler("d1")
  /\ heap[GasOf("d1")].db = "dbB"
  /\ heap[GasOf("d1")].client = "cB"
  /\ dbNotify["dbA"] = <<>>
  /\ \E r \in BagToSet(pending) :
       r.client = "cA" /\ r.user_data = GasOf("d1") /\ ~r.orphan

(***************************************************************************)
(* C9: Remove on an existing handler drops its registration, its database, *)
(* client and device references and its list entry; every reference count  *)
(* is one (the owner's) plus the handlers holding the object, no           *)
(* registration names a freed handler, and a Probe for a device without    *)
(* handler succeeds.                                                       *)
(***************************************************************************)
Holders(field, x) ==
  Cardinality({a \in Addr : heap[a].live /\ heap[a][field] = x})

C9_CountsBalanced ==
  /\ \A d \in AllDevices : devRef[d] = 1 + Holders("device", d)
  /\ \A db \in DBs : dbRef[db] = 1 + Holders("db", db)
  /\ \A c \in Clients : clientRef[c] = 1 + Holders("client", c)
  /\ \A db \in DBs : \A i \in 1 .. Len(dbNotify[db]) :
       heap[dbNotify[db][i].user_data].live
  /\ \A a \in Addr : heap[a].live <=> \E i \in 1 .. Len(devices) : devices[i] = a

C9_RemoveStep ==
  \A d \in AllDevices :
    (Did("gap_driver_remove", d) /\ HasHandler(d)) =>
      LET a == GasOf(d)
          g == heap[a]
      IN /\ ~heap'[a].live
         /\ \A i \in 1 .. Len(devices') : devices'[i] # a
         /\ Len(devices') = Len(devices) - 1
         /\ devRef' = [devRef EXCEPT ![d] = @ - 1]
         /\ dbRef' = IF g.db = NULL THEN dbRef
                     ELSE [dbRef EXCEPT ![g.db] = @ - 1]
         /\ clientRef' = IF g.client = NULL THEN clientRef
                         ELSE [clientRef EXCEPT ![g.client] = @ - 1]
         /\ \A db \in DBs : \A i \in 1 .. Len(dbNotify'[db]) :
              dbNotify'[db][i].user_data # a

C9_ProbeStep ==
  \A d \in AllDevices :
    (Did("gap_driver_probe", d) /\ ~HasHandler(d)) =>
      (out'.ret = 0 /\ Len(devices') = Len(devices) + 1)

\* C9: Remove releases everything the handler held; counts are balanced
C9_RemoveReleasesAll ==
  []C9_CountsBalanced /\ [][C9_RemoveStep /\ C9_ProbeStep]_vars

\* Probe, Accept, Remove, Probe: the second probe succeeded while a read of
\* the first handler is still outstanding
C9_Witness ==
  /\ out.op = "gap_driver_probe"
  /\ out.ret = 0
  /\ \E r \in BagToSet(pending) : r.orphan
  /\ \A db \in DBs : dbRef[db] = 1 /\ dbNotify[db] = <<>>
  /\ \A c \in Clients : clientRef[c] = 1

(***************************************************************************)
(* C10: Accept and Remove for a device without handler abort: Accept       *)
(* returns an error, and neither changes the handler list, a handler, a    *)
(* reference count, a registration or the outstanding reads, nor attempts  *)
(* a read.                                                                 *)
(***************************************************************************)
C10_NotHandledStep ==
  \A d \in AllDevices :
    ((Did("gap_driver_accept", d) \/ Did("gap_driver_remove", d))
       /\ ~HasHandler(d)) =>
      /\ PluginStateUnchanged
      /\ out'.reads = <<>>
      /\ out'.calls = <<>>
      /\ out'.errors = << "GAP service not handled by profile" >>
      /\ Did("gap_driver_accept", d) => out'.ret = -1

\* C10: Accept and Remove without handler change nothing
C10_NoHandlerNoEffect == [][C10_NotHandledStep]_vars

\* Accept failed for a device without handler while the other device has
\* an accepted handler
C10_Witness ==
  /\ out.op = "gap_driver_accept"
  /\ out.ret = -1
  /\ ~HasHandler(out.arg)
  /\ \E d \in AllDevices : HasHandler(d) /\ heap[GasOf(d)].db # NULL

(***************************************************************************)
(* C11: an Appearance read completion calls device_set_appearance if and   *)
(* only if it reports success with a value of exactly two bytes, and then  *)
(* passes byte0 + 256 * byte1; a failed completion, or a successful one of *)
(* any other length, makes no registry call and changes no handler.        *)
(***************************************************************************)
C11_CompletionStep ==
  out'.op = "read_appearance_cb" =>
  \A r \in BagToSet(pending) :
    LET success == out'.arg[1]
        v == out'.arg[2]
    IN
    ReadAppearanceComplete(r, success, v) =>
      /\ out'.calls =
           IF success /\ Len(v) = 2
           THEN << [fn |-> "device_set_appearance",
                    device |-> heap[r.user_data].device,
                    value |-> v[1] + 256 * v[2]] >>
           ELSE <<>>
      /\ heap' = heap
      /\ ~crashed'

\* C11: device_set_appearance is called exactly for a successful completion
\* of two bytes, with the little-endian value
C11_AppearanceDecoded == [][C11_CompletionStep]_vars

\* the completion carrying 0x40 0x03 has reported 0x0340
C11_Witness ==
  /\ out.op = "read_appearance_cb"
  /\ out.calls = << [fn |-> "device_set_appearance", device |-> "d1",
                     value |-> 832] >>
  /\ HasHandler("d1")

(***************************************************************************)
(* C12 as stated: the name decoded from L > 0 bytes is those bytes when    *)
(* they are valid UTF-8; otherwise it is the input truncated to the fixed  *)
(* maximum length, every byte outside printable ASCII (0x20..0x7E)         *)
(* replaced by a space, stripped of leading and trailing white space, and  *)
(* so holds printable ASCII bytes only.                                    *)
(* (Violated: only the bytes 0x80..0xFF are replaced, so DEL and the       *)
(* control characters stay; and the copy stops at the first NUL byte.)     *)
(***************************************************************************)
\* the fixed maximum length: one less than the buffer of name2utf8
C12_Truncated(v) == SubSeq(v, 1, Min(Len(v), HCI_MAX_NAME_LENGTH + 1))

\* the part of s before its first NUL byte
C12_BeforeNul(s) ==
  IF \A k \in 1 .. Len(s) : s[k] # 0 THEN s
  ELSE SubSeq(s, 1, (CHOOSE k \in 1 .. Len(s) :
                       s[k] = 0 /\ \A m \in 1 .. k - 1 : s[m] # 0) - 1)

\* the bytes outside lo..hi replaced by a space
C12_Spaced(s, lo, hi) ==
  [i \in 1 .. Len(s) |-> IF s[i] >= lo /\ s[i] <= hi THEN s[i] ELSE 32]

\* s without its leading and trailing white space
C12_Stripped(s) ==
  LET black == {k \in 1 .. Len(s) : s[k] \notin {9, 10, 11, 12, 13, 32}}
  IN IF black = {} THEN <<>>
     ELSE SubSeq(s, CHOOSE k \in black : \A m \in black : k <= m,
                    CHOOSE k \in black : \A m \in black : m <= k)

\* the name a successful completion carrying v has passed to the registry
C12_Decoded(v, expected, lo, hi) ==
  \A r \in BagToSet(pending) :
    (/\ out'.op = "read_device_name_cb"
     /\ out'.arg = << TRUE, v >>
     /\ ReadDeviceNameComplete(r, TRUE, v)
     /\ Len(v) > 0) =>
      /\ Len(out'.calls) = 1
      /\ out'.calls[1].fn = "btd_device_device_set_name"
      /\ out'.calls[1].value = expected
      /\ ~g_utf8_validate(v) =>
           \A i \in 1 .. Len(out'.calls[1].value) :
             out'.calls[1].value[i] >= lo /\ out'.calls[1].value[i] <= hi

C12_Stated(v) ==
  IF g_utf8_validate(v) THEN v
  ELSE C12_Stripped(C12_Spaced(C12_Truncated(v), 32, 126))

\* C12 as stated, with the printable range 0x20..0x7E
C12_Original ==
  [][out'.op = "read_device_name_cb" =>
       C12_Decoded(out'.arg[2], C12_Stated(out'.arg[2]), 32, 126)]_vars

(***************************************************************************)
(* C12 as amended: on the invalid-UTF-8 path the input is cut at its first *)
(* NUL byte and at 249 bytes, the bytes 0x80..0xFF are replaced by a       *)
(* space and the result is stripped; it holds ASCII bytes 0x01..0x7F only, *)
(* control characters included.  [0xFF, 0x41, 0x42, 0xFF] gives "AB".      *)
(***************************************************************************)
C12_Amended(v) ==
  IF g_utf8_validate(v) THEN v
  ELSE C12_Stripped(C12_Spaced(C12_BeforeNul(C12_Truncated(v)), 0, 127))

C12_NameStep ==
  out'.op = "read_device_name_cb" =>
  /\ C12_Decoded(out'.arg[2], C12_Amended(out'.arg[2]), 1, 127)
  /\ C12_Decoded(NameFFABFF, << 65, 66 >>, 65, 66)
  /\ C12_Decoded(NameAccented, NameAccented, 0, 255)
  /\ C12_Decoded(<< 169, 127 >>, << 127 >>, 127, 127)
  /\ C12_Decoded(NameNulInside, <<>>, 0, 0)

\* C12 as amended: the name passed to the registry, for every name explored
C12_NameDecoded == [][C12_NameStep]_vars

\* the name of 0xFF and 250 times 'A' has been cut at 249 bytes, its first
\* byte replaced and stripped: 248 times 'A' reached the registry
C12_Witness ==
  /\ out.op = "read_device_name_cb"
  /\ Len(out.calls) = 1
  /\ out.calls[1].value = [i \in 1 .. HCI_MAX_NAME_LENGTH |-> 65]
  /\ out.calls[1].device = "d1"

(***************************************************************************)
(* C13: a Device Name read completion calls btd_device_device_set_name if  *)
(* and only if it reports success with a nonzero length; a failed          *)
(* completion, or a successful one of length 0, makes no registry call and *)
(* changes no handler field (nor anything else the plugin holds, but the   *)
(* request, which is done).  The call is stated for the completion of a    *)
(* request whose handler exists; the completion after Remove is C2.        *)
(***************************************************************************)
C13_CompletionStep ==
  out'.op = "read_device_name_cb" =>
  \A r \in BagToSet(pending) :
    LET success == out'.arg[1]
        v == out'.arg[2]
    IN
    ReadDeviceNameComplete(r, success, v) =>
      /\ out'.calls # <<>> => (success /\ Len(v) # 0)
      /\ ~(success /\ Len(v) # 0) =>
           /\ out'.calls = <<>>
           /\ ~out'.uaf
           /\ UNCHANGED << heap, devices, devRef, dbRef, clientRef, dbNotify,
                           crashed >>
      /\ (success /\ Len(v) # 0 /\ ~r.orphan) =>
           /\ out'.calls = << [fn |-> "btd_device_device_set_name",
                               device |-> heap[r.user_data].device,
                               value |-> name2utf8(v)] >>
           /\ heap' = heap
      /\ pending' = pending (-) SetToBag({r})

\* C13: the registry gets a name exactly for a successful completion of
\* nonzero length
C13_NameCompletion == [][C13_CompletionStep]_vars

\* a successful completion of length 0 has been dropped, the handler still
\* bound to its service
C13_Witness ==
  /\ out.op = "read_device_name_cb"
  /\ out.arg = << TRUE, <<>> >>
  /\ out.calls = <<>>
  /\ HasHandler("d1")
  /\ heap[GasOf("d1")].attr = "n1"

(***************************************************************************)
(* C14: there is no retry.  A read is attempted only by Accept (its scan)  *)
(* or by a service-added notification; a read completion attempts none     *)
(* and only takes its request off the outstanding ones; and within one     *)
(* step each value handle is the target of at most one attempt per         *)
(* handler, queued when the client takes it and dropped when it does not.  *)
(***************************************************************************)
C14_Queued(reads) == Cardinality({i \in 1 .. Len(reads) : reads[i].ok})

C14_NoRetryStep ==
  /\ out'.reads # <<>> => out'.op \in {"gap_driver_accept", "service_added"}
  /\ out'.op \in {"read_device_name_cb", "read_appearance_cb"} =>
       /\ out'.reads = <<>>
       /\ BagCardinality(pending') = BagCardinality(pending) - 1
       /\ \A r \in BagToSet(pending') :
            CopiesIn(r, pending') <= CopiesIn(r, pending)
  /\ out'.op \notin {"read_device_name_cb", "read_appearance_cb"} =>
       BagCardinality(pending') =
         BagCardinality(pending) + C14_Queued(out'.reads)
  /\ \A i, j \in 1 .. Len(out'.reads) :
       (/\ out'.reads[i].req.user_data = out'.reads[j].req.user_data
        /\ out'.reads[i].req.value_handle = out'.reads[j].req.value_handle)
         => i = j
  /\ \A i \in 1 .. Len(out'.reads) :
       /\ out'.reads[i].ok => BagIn(out'.reads[i].req, pending')
       /\ ~out'.reads[i].ok =>
            CopiesIn(out'.reads[i].req, pending')
              = CopiesIn(out'.reads[i].req, pending)

\* C14: reads are attempted by Accept and service_added alone, once per
\* characteristic
C14_NoRetry == [][C14_NoRetryStep]_vars

\* Accept had both its reads refused by the client and left it at that
C14_Witness ==
  /\ out.op = "gap_driver_accept"
  /\ Len(out.reads) = 2
  /\ \A i \in 1 .. Len(out.reads) : ~out.reads[i].ok
  /\ pending = EmptyBag
  /\ heap[GasOf("d1")].attr = "n1"

(***************************************************************************)
(* C15: the readiness check is asymmetric.  A service-added notification   *)
(* received while the handler's client is not ready changes nothing of the *)
(* handler and attempts no read for it; the scan of Accept binds attr to   *)
(* the GAP service it finds and attempts the reads of its characteristics  *)
(* whether the client is ready or not.                                     *)
(***************************************************************************)
C15_NotificationStep ==
  \A n \in AllNodes :
    Did("service_added", n) =>
      \A a \in Addr :
        (/\ heap[a].live
         /\ Registered(a, DbOf(n))
         /\ ~clientReady[heap[a].client]) =>
          /\ heap'[a] = heap[a]
          /\ \A i \in 1 .. Len(out'.reads) : out'.reads[i].req.user_data # a

C15_ScanStep ==
  \A d \in AllDevices :
    (Did("gap_driver_accept", d) /\ HasHandler(d)
       /\ GapPresent(devDb[d]) # {}) =>
      LET a == GasOf(d)
          first == FirstGap(devDb[d])
      IN /\ heap'[a].attr = first
         /\ out'.reads = ExpectedReads(Chars(first), a)
         /\ \A i \in 1 .. Len(out'.reads) :
              out'.reads[i].ok = clientReady[devClient[d]]

\* C15: service_added consults the client's readiness, the scan does not
C15_ReadinessAsymmetric == [][C15_NotificationStep /\ C15_ScanStep]_vars

\* accepted on the second database while its client was not ready: bound
\* to the GAP service found there, the read attempted and refused
C15_Witness ==
  /\ out.op = "gap_driver_accept"
  /\ HasHandler("d1")
  /\ heap[GasOf("d1")].attr = "n4"
  /\ ~clientReady[heap[GasOf("d1")].client]
  /\ Len(out.reads) = 1
  /\ ~out.reads[1].ok

(***************************************************************************)
(* C16: one run of the service-handling routine on a node attempts a long  *)
(* read at offset 0 on the value handle of each Device Name                *)
(* characteristic of the node, a single read on that of each Appearance    *)
(* characteristic, and nothing for any other; the attempts are as many as  *)
(* the Device Name and Appearance characteristics of the node.  The UUID   *)
(* of a characteristic is the one gatt_db_attribute_get_char_data yields:  *)
(* a declaration that yields none has no UUID the routine could act on,    *)
(* is reported as an error and gets no request.                            *)
(***************************************************************************)
\* the routine runs for handler a on node n in this step: from the scan of
\* Accept, or from a service-added notification
C16_Runs(a, n) ==
  \/ \E d \in AllDevices :
       /\ Did("gap_driver_accept", d)
       /\ HasHandler(d)
       /\ a = GasOf(d)
       /\ GapPresent(devDb[d]) # {}
       /\ n = FirstGap(devDb[d])
  \/ /\ Did("service_added", n)
     /\ heap[a].live
     /\ Registered(a, DbOf(n))
     /\ clientReady[heap[a].client]
     /\ ServiceUuid(n) = GAP_UUID16
     /\ heap[a].attr = NULL

\* the characteristics of n whose UUID is one of the two
C16_Targets(n) ==
  {k \in 1 .. Len(Chars(n)) :
     /\ Chars(n)[k].ok
     /\ Chars(n)[k].uuid \in {GATT_CHARAC_DEVICE_NAME, GATT_CHARAC_APPEARANCE}}

C16_Attempt(rd, ch, a) ==
  /\ rd.req.user_data = a
  /\ rd.req.value_handle = ch.value_handle
  /\ rd.req.offset = 0
  /\ rd.req.fn = IF ch.uuid = GATT_CHARAC_DEVICE_NAME
                 THEN "bt_gatt_client_read_long_value"
                 ELSE "bt_gatt_client_read_value"
  /\ rd.req.cb = IF ch.uuid = GATT_CHARAC_DEVICE_NAME
                 THEN "read_device_name_cb" ELSE "read_appearance_cb"

C16_RunStep ==
  \A a \in Addr, n \in AllNodes :
    C16_Runs(a, n) =>
      LET mine == SelectSeq(out'.reads, LAMBDA rd : rd.req.user_data = a)
      IN /\ heap'[a].attr = n
         /\ Len(mine) = Cardinality(C16_Targets(n))
         /\ \A k \in C16_Targets(n) :
              Cardinality({i \in 1 .. Len(mine) :
                             C16_Attempt(mine[i], Chars(n)[k], a)}) = 1
         /\ \A i \in 1 .. Len(mine) :
              \E k \in C16_Targets(n) : C16_Attempt(mine[i], Chars(n)[k], a)
         /\ Len(out'.errors) >=
              Cardinality({k \in 1 .. Len(Chars(n)) : ~Chars(n)[k].ok})

\* C16: one attempt per Device Name or Appearance characteristic, of the
\* kind its UUID asks for, and none for any other characteristic
C16_DispatchByUuid == [][C16_RunStep]_vars

\* the notification for n1 bound it: its Device Name was read long, its
\* Appearance short, its third characteristic not at all
C16_Witness ==
  /\ out.op = "service_added"
  /\ out.arg = "n1"
  /\ HasHandler("d1")
  /\ heap[GasOf("d1")].attr = "n1"
  /\ Len(out.reads) = 2
  /\ out.reads[1].req.fn = "bt_gatt_client_read_long_value"
  /\ out.reads[1].req.value_handle = 3
  /\ out.reads[2].req.fn = "bt_gatt_client_read_value"
  /\ out.reads[2].req.value_handle = 5
  /\ out.errors = <<>>

(***************************************************************************)
(* C17: a GAP service whose service-added notification came while the      *)
(* client was not ready is not bound by the plugin on its own afterwards.  *)
(* A handler's attr becomes node n, and reads of n's characteristics are   *)
(* attempted, only in an Accept for the handler's device or in a           *)
(* service-added notification for n delivered while the client is ready;   *)
(* the client becoming ready is no event of the plugin: it changes         *)
(* nothing and attempts no read.                                           *)
(***************************************************************************)
\* the step is one of the two that may bind handler a to node n
C17_MayBind(a, n) ==
  \/ /\ out'.op = "gap_driver_accept"
     /\ heap[a].live
     /\ out'.arg = heap[a].device
  \/ /\ Did("service_added", n)
     /\ heap[a].live
     /\ clientReady[heap[a].client]

C17_BindStep ==
  \A a \in Addr, n \in AllNodes :
    /\ (heap'[a].live /\ heap'[a].attr = n
          /\ ~(heap[a].live /\ heap[a].attr = n)) => C17_MayBind(a, n)
    /\ (\E i \in 1 .. Len(out'.reads) : out'.reads[i].req.user_data = a) =>
         (heap'[a].attr = n => C17_MayBind(a, n))

C17_ReadyStep ==
  (clientReady' # clientReady) =>
    /\ PluginStateUnchanged
    /\ out'.reads = <<>>
    /\ out'.calls = <<>>

\* C17: only Accept, or a notification for the node under a ready client,
\* binds a node and attempts its reads
C17_MissedServiceStaysUnbound == [][C17_BindStep /\ C17_ReadyStep]_vars

\* d1 alone in its database with n1, which was added while the client was
\* not ready: the client has become ready, n1 is present and still not
\* bound, no read is outstanding
C17_Witness ==
  /\ topology = "two-devices"
  /\ out.op = "env"
  /\ clientReady["cA"]
  /\ "n1" \in dbServices["dbA"]
  /\ HasHandler("d1")
  /\ heap[GasOf("d1")].db = "dbA"
  /\ heap[GasOf("d1")].attr = NULL
  /\ pending = EmptyBag

(***************************************************************************)
(* C18: the read completions do not consult attr.  While the handler       *)
(* exists, a successful Device Name completion of nonzero length and a     *)
(* successful Appearance completion of length 2 call the registry for the  *)
(* handler's device also when attr has been cleared since the read was     *)
(* issued, or names another node; attr is left as it is.                   *)
(***************************************************************************)
C18_Step ==
  out'.op \in {"read_device_name_cb", "read_appearance_cb"} =>
  \A r \in BagToSet(pending) :
    LET success == out'.arg[1]
        v == out'.arg[2]
        a == r.user_data
        reports == IF r.cb = "read_device_name_cb"
                   THEN Len(v) # 0 ELSE Len(v) = 2
    IN
    (/\ r.cb = out'.op
     /\ Completes(r)
     /\ ~r.orphan
     /\ success
     /\ reports
     /\ IF r.cb = "read_device_name_cb"
        THEN ReadDeviceNameComplete(r, success, v)
        ELSE ReadAppearanceComplete(r, success, v)) =>
      /\ Len(out'.calls) = 1
      /\ out'.calls[1].device = heap[a].device
      /\ out'.calls[1].fn = IF r.cb = "read_device_name_cb"
                            THEN "btd_device_device_set_name"
                            ELSE "device_set_appearance"
      /\ heap'[a].attr = heap[a].attr

\* C18: a completion reports to the registry whatever attr is
C18_CompletionIgnoresAttr == [][C18_Step]_vars

\* n1 was removed from the database after its reads were issued: attr is
\* cleared and the appearance has reached the registry all the same
C18_Witness ==
  /\ topology = "two-devices"
  /\ out.op = "read_appearance_cb"
  /\ Len(out.calls) = 1
  /\ out.calls[1].device = "d1"
  /\ ~out.uaf
  /\ HasHandler("d1")
  /\ heap[GasOf("d1")].attr = NULL
  /\ "n1" \notin dbServices["dbA"]

(***************************************************************************)
(* C19: a handler holds its database reference, its client reference and   *)
(* its notification registration all together or not at all: none of them  *)
(* after Probe, which takes the device reference alone, all of them after  *)
(* an Accept.  So every handler a database notifies has a client, and no   *)
(* read is attempted on a null client.                                     *)
(***************************************************************************)
C19_AllOrNone ==
  \A a \in Addr :
    heap[a].live =>
      \/ /\ heap[a].db = NULL
         /\ heap[a].client = NULL
         /\ heap[a].db_id = 0
         /\ heap[a].attr = NULL
         /\ RegistrationSlots(a) = {}
      \/ /\ heap[a].db # NULL
         /\ heap[a].client # NULL
         /\ heap[a].db_id # 0
         /\ Cardinality(RegistrationSlots(a)) = 1
         /\ \A sl \in RegistrationSlots(a) : sl[1] = heap[a].db

C19_NotifiedHasClient ==
  /\ \A db \in DBs : \A i \in 1 .. Len(dbNotify[db]) :
       /\ heap[dbNotify[db][i].user_data].live
       /\ heap[dbNotify[db][i].user_data].client # NULL
  /\ \A i \in 1 .. Len(out.reads) : out.reads[i].req.client # NULL

C19_ProbeStep ==
  \A d \in AllDevices :
    (Did("gap_driver_probe", d) /\ out'.ret = 0) =>
      /\ \E a \in Addr :
           /\ ~heap[a].live
           /\ heap' = [heap EXCEPT ![a] = [ZeroGas EXCEPT !.device = d]]
           /\ devices' = Append(devices, a)
      /\ devRef' = [devRef EXCEPT ![d] = @ + 1]
      /\ UNCHANGED << dbRef, clientRef, dbNotify, pending >>
      /\ out'.reads = <<>>

\* C19: database, client and registration are held together or not at all
C19_DbClientTogether ==
  [](C19_AllOrNone /\ C19_NotifiedHasClient) /\ [][C19_ProbeStep]_vars

\* a service was added to the database of d1 while d1 was probed and not
\* yet accepted: its handler holds the device alone and was not notified
C19_Witness ==
  /\ out.op = "service_added"
  /\ out.arg = "n1"
  /\ HasHandler("d1")
  /\ heap[GasOf("d1")] = [ZeroGas EXCEPT !.device = "d1"]
  /\ devRef["d1"] = 2
  /\ dbRef["dbA"] = 1
  /\ clientRef["cA"] = 1
  /\ dbNotify["dbA"] = <<>>

(***************************************************************************)
(* C20: when the bound GAP service is removed, another GAP service still   *)
(* present in the database (added earlier and ignored as a duplicate) is   *)
(* not adopted: attr becomes null and stays null, and no read is           *)
(* attempted, until a service-added notification for a GAP node arrives    *)
(* with the client ready, which binds that node and attempts its reads, or *)
(* until Accept is called again.                                           *)
(***************************************************************************)
C20_RemovedStep ==
  \A n \in AllNodes, a \in Addr :
    (Did("service_removed", n) /\ heap[a].live /\ heap[a].attr = n) =>
      /\ heap'[a].attr = NULL
      /\ out'.reads = <<>>

C20_UnboundStep ==
  \A a \in Addr :
    (/\ heap[a].live
     /\ heap[a].db # NULL
     /\ heap[a].attr = NULL
     /\ GapPresent(heap[a].db) # {}
     /\ heap'[a].live) =>
      \/ /\ heap'[a].attr = NULL
         /\ \A i \in 1 .. Len(out'.reads) : out'.reads[i].req.user_data # a
      \/ /\ out'.op = "gap_driver_accept"
         /\ out'.arg = heap[a].device
      \/ /\ out'.op = "service_added"
         /\ ServiceUuid(out'.arg) = GAP_UUID16
         /\ out'.arg \notin GapPresent(heap[a].db)
         /\ clientReady[heap[a].client]
         /\ heap'[a].attr = out'.arg
         /\ out'.reads = ExpectedReads(Chars(out'.arg), a)

\* C20: a GAP service left over is not adopted when the bound one goes
C20_DuplicateNotAdopted == [][C20_RemovedStep /\ C20_UnboundStep]_vars

\* n1 was bound and n2 present beside it; n1 has been removed and the
\* handler is unbound although n2 is still there
C20_Witness ==
  /\ out.op = "service_removed"
  /\ out.arg = "n1"
  /\ HasHandler("d1")
  /\ heap[GasOf("d1")].db = "dbA"
  /\ heap[GasOf("d1")].attr = NULL
  /\ GapPresent("dbA") = {"n2"}

====
